---- MODULE Spec2Model ----
(***************************************************************************)
(* Model of the wspBackend services.                                       *)
(*                                                                         *)
(*   garageNcar.py : garages_db, cars_db, maintenance_db and their access  *)
(*                   functions and routes                                  *)
(*   garageList.py : reports_db and the dailyAvailabilityReport route      *)
(*                                                                         *)
(* Every route is an `async def` without an await, so one request handler  *)
(* runs to completion before the event loop starts the next one: a handler *)
(* is one action.                                                          *)
(*                                                                         *)
(* GarageDTO objects are Python objects: garages_db and CarDTO.garages     *)
(* hold references to them.  The model keeps them in `heap`, a function    *)
(* from addresses to GarageDTO values, so that sharing one object between  *)
(* garages_db and a car's garage list is visible.                          *)
(***************************************************************************)
EXTENDS Integers, Sequences, FiniteSets, TLC

VARIABLES
    heap,            \* address -> GarageDTO value (the live GarageDTO objects)
    garages_db,      \* garageNcar.py:23, a list of addresses
    cars_db,         \* garageNcar.py:24, a list of CarDTO (garages: addresses)
    maintenance_db,  \* garageNcar.py:25, a list of MaintenanceDTO
    reports_db,      \* garageList.py:25, a list of GarageReportEntryDTO
    today,           \* date.today(), as a day number
    ret,             \* the call handled last: route, status, (queries:) arguments, body
    hist             \* history: collections that saw a delete, report calls, the call before

vars == <<heap, garages_db, cars_db, maintenance_db, reports_db, today, ret, hist>>

----------------------------------------------------------------------------
(* Bounds of the model *)

\* entities stored at a time, over garages_db, cars_db and maintenance_db
MaxEntities == 2
\* calls of the report route, and days that pass
MaxReports == 3
MaxDay == 3
\* cars stored when /cars is queried
MaxFilterCars == 2

----------------------------------------------------------------------------
(* Strings that the code lower-cases are sequences of characters. *)

LowerChar(c) ==
    CASE c = "T" -> "t"
      [] c = "O" -> "o"
      [] c = "Y" -> "y"
      [] c = "K" -> "k"
      [] c = "I" -> "i"
      [] c = "A" -> "a"
      [] OTHER -> c

\* str.lower()
Lower(s) == [i \in DOMAIN s |-> LowerChar(s[i])]

Toyota == <<"T", "o", "y">>
TOYOTA == <<"T", "O", "Y">>
Kia == <<"K", "i", "a">>
EmptyStr == <<>>

----------------------------------------------------------------------------
(* Optional[T]: None is <<>>, a value v is <<v>> *)

None == <<>>
Some(v) == <<v>>

\* Python truthiness of an int or a str argument that may be None
TruthyInt(o) == o # None /\ o[1] # 0
TruthyStr(o) == o # None /\ o[1] # EmptyStr

----------------------------------------------------------------------------
(* DTOs *)

GarageCreateDTOs ==
    { [name |-> "A", location |-> "L1", city |-> "Paris", capacity |-> 10],
      [name |-> "B", location |-> "L2", city |-> "Lyon", capacity |-> 5] }

\* GarageDTO(id=garage_id, **garage_create_dto.dict())
GarageDTO(id, dto) ==
    [id |-> id, name |-> dto.name, location |-> dto.location,
     city |-> dto.city, capacity |-> dto.capacity]

GarageIdLists == { <<1, 2>> }

CarCreateDTOs ==
    { [make |-> Toyota, model |-> "Yaris", productionYear |-> 2020,
       licensePlate |-> "P1", garageIds |-> ids] : ids \in GarageIdLists }
    \cup
    { [make |-> Kia, model |-> "Rio", productionYear |-> 2010,
       licensePlate |-> "P2", garageIds |-> <<>>] }

\* CarDTO(id=car_id, **car_create_dto.dict(), garages=[]): garageIds is no
\* field of CarDTO and is dropped
CarDTO(id, dto) ==
    [id |-> id, make |-> dto.make, model |-> dto.model,
     productionYear |-> dto.productionYear, licensePlate |-> dto.licensePlate,
     garages |-> <<>>]

MaintenanceCreateDTOs ==
    { [carId |-> 1, date |-> 1, description |-> "oil", cost |-> 10],
      [carId |-> 7, date |-> 2, description |-> "tyres", cost |-> 20] }

\* MaintenanceDTO(id=maintenance_id, **maintenance_create_dto.dict())
MaintenanceDTO(id, dto) ==
    [id |-> id, carId |-> dto.carId, date |-> dto.date,
     description |-> dto.description, cost |-> dto.cost]

----------------------------------------------------------------------------
(* Lists *)

\* list.pop(index), the list that is left
RemoveAt(s, i) == [j \in 1..(Len(s) - 1) |-> IF j < i THEN s[j] ELSE s[j + 1]]

\* `for index, x in enumerate(xs): if x.id == id: ...`: the first index whose
\* element has the id, 0 when the loop falls through
FirstIndex(xs, id) ==
    IF \E i \in DOMAIN xs : xs[i].id = id
    THEN CHOOSE i \in DOMAIN xs :
             /\ xs[i].id = id
             /\ \A j \in 1..(i - 1) : xs[j].id # id
    ELSE 0

\* the GarageDTO values a list of addresses refers to
Deref(h, refs) == [i \in DOMAIN refs |-> h[refs[i]]]

\* a fresh object: an address no live object has
NewAddr(h) == Len(h) + 1

\* every reference held, in the order garages_db, cars_db[1].garages, ...
RECURSIVE RefsOfCars(_)
RefsOfCars(cdb) ==
    IF cdb = <<>> THEN <<>> ELSE Head(cdb).garages \o RefsOfCars(Tail(cdb))

RECURSIVE Distinct(_, _)
Distinct(refs, seen) ==
    IF refs = <<>> THEN seen
    ELSE Distinct(Tail(refs),
                  IF \E k \in DOMAIN seen : seen[k] = Head(refs)
                  THEN seen ELSE Append(seen, Head(refs)))

Rank(order, a) == CHOOSE k \in DOMAIN order : order[k] = a

\* Reference counting: an object that no list refers to any more is gone.
\* An address is not observable by the program, so the live objects are
\* named 1..n in the order the lists refer to them.
Collect(h, gdb, cdb) ==
    LET order == Distinct(gdb \o RefsOfCars(cdb), <<>>)
    IN  [heap |-> [k \in DOMAIN order |-> h[order[k]]],
         garages_db |-> [i \in DOMAIN gdb |-> Rank(order, gdb[i])],
         cars_db |-> [i \in DOMAIN cdb |->
                        [cdb[i] EXCEPT !.garages =
                            [k \in DOMAIN cdb[i].garages |->
                                Rank(order, cdb[i].garages[k])]]]]

\* a new object at address a = NewAddr(h)
Alloc(h, a, v) == Append(h, v)

----------------------------------------------------------------------------
(* Garage-related functions, garageNcar.py:72-96 *)

\* the address of the first garage in garages_db with the id, or None
get_garage_by_id(h, gdb, garage_id) ==
    LET i == FirstIndex(Deref(h, gdb), garage_id)
    IN  IF i = 0 THEN None ELSE Some(gdb[i])

\* mutant: the id is the length, not the length + 1
add_garage_to_db_len(h, gdb, garage_create_dto) ==
    LET garage_id == Len(gdb)
        new_garage == NewAddr(h)
    IN  [heap |-> Alloc(h, new_garage, GarageDTO(garage_id, garage_create_dto)),
         db |-> Append(gdb, new_garage),
         result |-> new_garage]

add_garage_to_db(h, gdb, garage_create_dto) ==
    LET garage_id == Len(gdb) + 1
        new_garage == NewAddr(h)
    IN  [heap |-> Alloc(h, new_garage, GarageDTO(garage_id, garage_create_dto)),
         db |-> Append(gdb, new_garage),
         result |-> new_garage]

\* mutant: the new garage is written to the last slot, not the matching one
update_garage_in_db_lastslot(h, gdb, garage_id, garage_dto) ==
    LET index == FirstIndex(Deref(h, gdb), garage_id)
    IN  IF index = 0
        THEN [heap |-> h, db |-> gdb, result |-> None]
        ELSE [heap |-> h, db |-> [gdb EXCEPT ![Len(gdb)] = garage_dto],
              result |-> Some(garage_dto)]

\* mutant: the stored object is overwritten in place, not replaced
update_garage_in_db_inplace(h, gdb, garage_id, garage_dto) ==
    LET index == FirstIndex(Deref(h, gdb), garage_id)
    IN  IF index = 0
        THEN [heap |-> h, db |-> gdb, result |-> None]
        ELSE [heap |-> [h EXCEPT ![gdb[index]] = h[garage_dto]], db |-> gdb,
              result |-> Some(gdb[index])]

\* garage_dto is the address of the object the route has built
update_garage_in_db(h, gdb, garage_id, garage_dto) ==
    LET index == FirstIndex(Deref(h, gdb), garage_id)
    IN  IF index = 0
        THEN [heap |-> h, db |-> gdb, result |-> None]
        ELSE [heap |-> h, db |-> [gdb EXCEPT ![index] = garage_dto],
              result |-> Some(garage_dto)]

delete_garage_from_db(h, gdb, garage_id) ==
    LET index == FirstIndex(Deref(h, gdb), garage_id)
    IN  IF index = 0
        THEN [db |-> gdb, result |-> None]
        ELSE [db |-> RemoveAt(gdb, index), result |-> Some(gdb[index])]

----------------------------------------------------------------------------
(* Car-related functions, garageNcar.py:98-127 *)

get_car_by_id(cdb, car_id) ==
    LET i == FirstIndex(cdb, car_id)
    IN  IF i = 0 THEN None ELSE Some(cdb[i])

\* mutant: the loop ends at the first id that matches no garage
RECURSIVE AppendGarages_stop(_, _, _, _)
AppendGarages_stop(h, gdb, garageIds, garages) ==
    IF garageIds = <<>>
    THEN garages
    ELSE LET garage == get_garage_by_id(h, gdb, Head(garageIds))
         IN  IF garage = None
             THEN garages
             ELSE AppendGarages_stop(h, gdb, Tail(garageIds),
                                     Append(garages, garage[1]))

\* for garage_id in garageIds: garage = get_garage_by_id(garage_id);
\*     if garage: car.garages.append(garage)
RECURSIVE AppendGarages(_, _, _, _)
AppendGarages(h, gdb, garageIds, garages) ==
    IF garageIds = <<>>
    THEN garages
    ELSE LET garage == get_garage_by_id(h, gdb, Head(garageIds))
         IN  AppendGarages(h, gdb, Tail(garageIds),
                           IF garage # None THEN Append(garages, garage[1])
                                            ELSE garages)

add_car_to_db(h, gdb, cdb, car_create_dto) ==
    LET car_id == Len(cdb) + 1
        new_car == [CarDTO(car_id, car_create_dto) EXCEPT
                       !.garages = AppendGarages(h, gdb, car_create_dto.garageIds, <<>>)]
    IN  [db |-> Append(cdb, new_car), result |-> new_car]

update_car_in_db(cdb, car_id, car_dto) ==
    LET index == FirstIndex(cdb, car_id)
    IN  IF index = 0
        THEN [db |-> cdb, result |-> None]
        ELSE [db |-> [cdb EXCEPT ![index] = car_dto], result |-> Some(car_dto)]

delete_car_from_db(cdb, car_id) ==
    LET index == FirstIndex(cdb, car_id)
    IN  IF index = 0
        THEN [db |-> cdb, result |-> None]
        ELSE [db |-> RemoveAt(cdb, index), result |-> Some(cdb[index])]

----------------------------------------------------------------------------
(* Maintenance-related functions, garageNcar.py:130-154 *)

get_maintenance_by_id(mdb, maintenance_id) ==
    LET i == FirstIndex(mdb, maintenance_id)
    IN  IF i = 0 THEN None ELSE Some(mdb[i])

add_maintenance_to_db(mdb, maintenance_create_dto) ==
    LET maintenance_id == Len(mdb) + 1
        new_maintenance == MaintenanceDTO(maintenance_id, maintenance_create_dto)
    IN  [db |-> Append(mdb, new_maintenance), result |-> new_maintenance]

update_maintenance_in_db(mdb, maintenance_id, maintenance_dto) ==
    LET index == FirstIndex(mdb, maintenance_id)
    IN  IF index = 0
        THEN [db |-> mdb, result |-> None]
        ELSE [db |-> [mdb EXCEPT ![index] = maintenance_dto],
              result |-> Some(maintenance_dto)]

delete_maintenance_from_db(mdb, maintenance_id) ==
    LET index == FirstIndex(mdb, maintenance_id)
    IN  IF index = 0
        THEN [db |-> mdb, result |-> None]
        ELSE [db |-> RemoveAt(mdb, index), result |-> Some(mdb[index])]

----------------------------------------------------------------------------------------------------------------------------------------
(* What a caller sees: stored values and response bodies, references followed *)

CarView(h, car) == [car EXCEPT !.garages = Deref(h, car.garages)]
ViewOfCars(h, cdb) == [i \in DOMAIN cdb |-> CarView(h, cdb[i])]
GaragesView == Deref(heap, garages_db)
CarsView == ViewOfCars(heap, cars_db)

\* what a route leaves behind and answers: the lists, the HTTP status, the
\* response body and the line of the raise (0: none)
Response(c, status, body, raisedAt) ==
    [heap |-> c.heap, garages_db |-> c.garages_db, cars_db |-> c.cars_db,
     status |-> status, body |-> body, raisedAt |-> raisedAt]

----------------------------------------------------------------------------
(* Garage routes, garageNcar.py:163-188 *)

add_garage(h, gdb, cdb, garage_create_dto) ==
    LET r == add_garage_to_db(h, gdb, garage_create_dto)
    IN  Response(Collect(r.heap, r.db, cdb), 200, Some(r.heap[r.result]), 0)

update_garage(h, gdb, cdb, garage_id, garage_dto) ==
    LET existing_garage == get_garage_by_id(h, gdb, garage_id)
        updated_garage == NewAddr(h)
        h1 == Alloc(h, updated_garage, GarageDTO(garage_id, garage_dto))
        r == update_garage_in_db(h1, gdb, garage_id, updated_garage)
    IN  IF existing_garage = None
        THEN Response(Collect(h, gdb, cdb), 404, None, 172)
        ELSE IF r.result = None
        THEN Response(Collect(r.heap, r.db, cdb), 404, None, 179)
        ELSE Response(Collect(r.heap, r.db, cdb), 200, Some(r.heap[r.result[1]]), 0)

delete_garage(h, gdb, cdb, garage_id) ==
    LET r == delete_garage_from_db(h, gdb, garage_id)
    IN  IF r.result = None
        THEN Response(Collect(h, r.db, cdb), 404, None, 187)
        ELSE Response(Collect(h, r.db, cdb), 200, Some(h[r.result[1]]), 0)

----------------------------------------------------------------------------
(* Car routes, garageNcar.py:191-244 *)

\* the list comprehensions of get_cars; an argument that is None, 0 or ""
\* is falsy and its filter is not applied
get_cars(h, cdb, carMake, garageId, fromYear, toYear) ==
    LET MakeIs(car) == Lower(car.make) = Lower(carMake[1])
        InGarage(car) == \E k \in DOMAIN car.garages : h[car.garages[k]].id = garageId[1]
        From(car) == car.productionYear >= fromYear[1]
        To(car) == car.productionYear <= toYear[1]
        f0 == cdb
        f1 == IF TruthyStr(carMake) THEN SelectSeq(f0, MakeIs) ELSE f0
        f2 == IF TruthyInt(garageId) THEN SelectSeq(f1, InGarage) ELSE f1
        f3 == IF TruthyInt(fromYear) THEN SelectSeq(f2, From) ELSE f2
        f4 == IF TruthyInt(toYear) THEN SelectSeq(f3, To) ELSE f3
    IN  ViewOfCars(h, f4)

add_car(h, gdb, cdb, car_create_dto) ==
    LET r == add_car_to_db(h, gdb, cdb, car_create_dto)
    IN  Response(Collect(h, gdb, r.db), 200, Some(CarView(h, r.result)), 0)

update_car(h, gdb, cdb, car_id, car_dto) ==
    LET existing_car == get_car_by_id(cdb, car_id)
        updated_car == [CarDTO(car_id, car_dto) EXCEPT
                           !.garages = AppendGarages(h, gdb, car_dto.garageIds, <<>>)]
        r == update_car_in_db(cdb, car_id, updated_car)
    IN  IF existing_car = None
        THEN Response(Collect(h, gdb, cdb), 404, None, 224)
        ELSE IF r.result = None
        THEN Response(Collect(h, gdb, r.db), 404, None, 235)
        ELSE Response(Collect(h, gdb, r.db), 200, Some(CarView(h, r.result[1])), 0)

delete_car(h, gdb, cdb, car_id) ==
    LET r == delete_car_from_db(cdb, car_id)
    IN  IF r.result = None
        THEN Response(Collect(h, gdb, r.db), 404, None, 243)
        ELSE Response(Collect(h, gdb, r.db), 200, Some(CarView(h, r.result[1])), 0)

----------------------------------------------------------------------------
(* The maintenance functions have no route.  update(id, payload) is taken  *)
(* as the garage and car routes do it: the entity that is stored carries   *)
(* the id that is looked up.                                               *)

update_maintenance(mdb, maintenance_id, maintenance_dto) ==
    update_maintenance_in_db(mdb, maintenance_id,
                             MaintenanceDTO(maintenance_id, maintenance_dto))

----------------------------------------------------------------------------
(* Report route, garageList.py:121-129 *)

GarageReportEntryDTO(d) == [date |-> d, requests |-> 10, availableCapacity |-> 50]

\* mutant: the entry is appended after the log was filtered
get_garage_report_stale(rdb, now, garageId, start_date, end_date) ==
    LET appended == Append(rdb, GarageReportEntryDTO(now))
        InRange(report) == report.date >= start_date /\ report.date <= end_date
    IN  [reports_db |-> appended, body |-> SelectSeq(rdb, InRange)]

get_garage_report(rdb, now, garageId, start_date, end_date) ==
    LET appended == Append(rdb, GarageReportEntryDTO(now))
        InRange(report) == report.date >= start_date /\ report.date <= end_date
    IN  [reports_db |-> appended, body |-> SelectSeq(appended, InRange)]

----------------------------------------------------------------------------
(* Initial state: the module-level lists are empty *)

\* ret: the route (or function) called last and its status; the query routes
\* also keep their arguments and the response body
Called(op, status, args, body) ==
    [op |-> op, status |-> status, args |-> args, body |-> body]

NoCall == Called("none", 0, <<>>, <<>>)

Init ==
    /\ heap = <<>>
    /\ garages_db = <<>>
    /\ cars_db = <<>>
    /\ maintenance_db = <<>>
    /\ reports_db = <<>>
    /\ today = 1
    /\ ret = NoCall
    /\ hist = [deleted |-> {}, calls |-> 0, prev |-> NoCall]

----------------------------------------------------------------------------
(* garageNcar.py under sequential use: one request, or one direct call of  *)
(* a maintenance function, at a time                                       *)

Stored == Len(garages_db) + Len(cars_db) + Len(maintenance_db)
IdArgs == 0..MaxEntities

Apply(op, r) ==
    /\ heap' = r.heap
    /\ garages_db' = r.garages_db
    /\ cars_db' = r.cars_db
    /\ ret' = Called(op, r.status, <<>>, <<>>)

Deleted(r, collection) ==
    hist' = IF r.status = 200 THEN [hist EXCEPT !.deleted = @ \cup {collection}]
            ELSE hist

PostGarages(dto) ==
    /\ Stored < MaxEntities
    /\ Apply("add_garage", add_garage(heap, garages_db, cars_db, dto))
    /\ UNCHANGED <<maintenance_db, reports_db, today, hist>>

PutGarages(id, dto) ==
    /\ Apply("update_garage", update_garage(heap, garages_db, cars_db, id, dto))
    /\ UNCHANGED <<maintenance_db, reports_db, today, hist>>

DeleteGarages(id) ==
    /\ Apply("delete_garage", delete_garage(heap, garages_db, cars_db, id))
    /\ Deleted(delete_garage(heap, garages_db, cars_db, id), "garages")
    /\ UNCHANGED <<maintenance_db, reports_db, today>>

PostCars(dto) ==
    /\ Stored < MaxEntities
    /\ Apply("add_car", add_car(heap, garages_db, cars_db, dto))
    /\ UNCHANGED <<maintenance_db, reports_db, today, hist>>

PutCars(id, dto) ==
    /\ Apply("update_car", update_car(heap, garages_db, cars_db, id, dto))
    /\ UNCHANGED <<maintenance_db, reports_db, today, hist>>

DeleteCars(id) ==
    /\ Apply("delete_car", delete_car(heap, garages_db, cars_db, id))
    /\ Deleted(delete_car(heap, garages_db, cars_db, id), "cars")
    /\ UNCHANGED <<maintenance_db, reports_db, today>>

AddMaintenance(dto) ==
    /\ Stored < MaxEntities
    /\ maintenance_db' = add_maintenance_to_db(maintenance_db, dto).db
    /\ ret' = Called("add_maintenance_to_db", 200, <<>>, <<>>)
    /\ UNCHANGED <<heap, garages_db, cars_db, reports_db, today, hist>>

UpdateMaintenance(id, dto) ==
    LET r == update_maintenance(maintenance_db, id, dto)
    IN  /\ maintenance_db' = r.db
        /\ ret' = Called("update_maintenance_in_db",
                         IF r.result = None THEN 404 ELSE 200, <<>>, <<>>)
        /\ UNCHANGED <<heap, garages_db, cars_db, reports_db, today, hist>>

DeleteMaintenance(id) ==
    LET r == delete_maintenance_from_db(maintenance_db, id)
    IN  /\ maintenance_db' = r.db
        /\ ret' = Called("delete_maintenance_from_db",
                         IF r.result = None THEN 404 ELSE 200, <<>>, <<>>)
        /\ hist' = IF r.result # None
                   THEN [hist EXCEPT !.deleted = @ \cup {"maintenance"}]
                   ELSE hist
        /\ UNCHANGED <<heap, garages_db, cars_db, reports_db, today>>

Next ==
    \/ \E dto \in GarageCreateDTOs : PostGarages(dto)
    \/ \E id \in IdArgs, dto \in GarageCreateDTOs : PutGarages(id, dto)
    \/ \E id \in IdArgs : DeleteGarages(id)
    \/ \E dto \in CarCreateDTOs : PostCars(dto)
    \/ \E id \in IdArgs, dto \in CarCreateDTOs : PutCars(id, dto)
    \/ \E id \in IdArgs : DeleteCars(id)
    \/ \E dto \in MaintenanceCreateDTOs : AddMaintenance(dto)
    \/ \E id \in IdArgs, dto \in MaintenanceCreateDTOs : UpdateMaintenance(id, dto)
    \/ \E id \in IdArgs : DeleteMaintenance(id)

Spec == Init /\ [][Next]_vars

----------------------------------------------------------------------------
(* garageList.py: the report route, called again and again as days pass *)

ReportDates == 1..MaxDay
ReportGarageIds == {1, 2}

GetGarageReport(garageId, start_date, end_date) ==
    /\ Len(reports_db) < MaxReports
    /\ LET r == get_garage_report(reports_db, today, garageId, start_date, end_date)
       IN  /\ reports_db' = r.reports_db
           /\ ret' = Called("get_garage_report", 200,
                            <<garageId, start_date, end_date>>, r.body)
    /\ hist' = [hist EXCEPT !.calls = @ + 1, !.prev = ret]
    /\ UNCHANGED <<heap, garages_db, cars_db, maintenance_db, today>>

\* midnight: date.today() moves on
NextDay ==
    /\ today < MaxDay
    /\ today' = today + 1
    /\ UNCHANGED <<heap, garages_db, cars_db, maintenance_db, reports_db, ret, hist>>

NextReport ==
    \/ \E g \in ReportGarageIds, s \in ReportDates, e \in ReportDates :
           GetGarageReport(g, s, e)
    \/ NextDay

SpecReport == Init /\ [][NextReport]_vars

----------------------------------------------------------------------------
(* GET /cars on a service that holds two garages and some cars *)

FilterCarDTOs ==
    { [make |-> Toyota, model |-> "Yaris", productionYear |-> 2020,
       licensePlate |-> "P1", garageIds |-> <<1>>],
      [make |-> TOYOTA, model |-> "Hilux", productionYear |-> 2010,
       licensePlate |-> "P2", garageIds |-> <<1, 2>>],
      [make |-> Kia, model |-> "Rio", productionYear |-> -1,
       licensePlate |-> "P3", garageIds |-> <<>>] }

RECURSIVE PostedCars(_, _, _, _)
PostedCars(h, gdb, cdb, dtos) ==
    IF dtos = <<>> THEN cdb
    ELSE PostedCars(h, gdb, add_car_to_db(h, gdb, cdb, Head(dtos)).db, Tail(dtos))

InitFilter ==
    /\ heap = << GarageDTO(1, [name |-> "A", location |-> "L1", city |-> "Paris",
                               capacity |-> 10]),
                 GarageDTO(2, [name |-> "B", location |-> "L2", city |-> "Lyon",
                               capacity |-> 5]) >>
    /\ garages_db = <<1, 2>>
    /\ \E n \in 0..MaxFilterCars : \E dtos \in [1..n -> FilterCarDTOs] :
           cars_db = PostedCars(heap, garages_db, <<>>, dtos)
    /\ maintenance_db = <<>>
    /\ reports_db = <<>>
    /\ today = 1
    /\ ret = NoCall
    /\ hist = [deleted |-> {}, calls |-> 0, prev |-> NoCall]

MakeArgs == { None, Some(EmptyStr), Some(Lower(Toyota)), Some(Kia) }
GarageIdFilterArgs == { None, Some(0), Some(1), Some(2) }
YearArgs == { None, Some(0), Some(2010), Some(2015) }

GetCars(carMake, garageId, fromYear, toYear) ==
    /\ ret' = Called("get_cars", 200, <<carMake, garageId, fromYear, toYear>>,
                      get_cars(heap, cars_db, carMake, garageId, fromYear, toYear))
    /\ UNCHANGED <<heap, garages_db, cars_db, maintenance_db, reports_db, today, hist>>

NextFilter ==
    \E m \in MakeArgs, g \in GarageIdFilterArgs, f \in YearArgs, t \in YearArgs :
        GetCars(m, g, f, t)

SpecFilter == InitFilter /\ [][NextFilter]_vars

----------------------------------------------------------------------------
(* Properties.  A property of a route is stated for every reachable state  *)
(* and every argument: the route's operator gives what the call would      *)
(* leave behind and answer there.                                          *)

Carries(xs, id) == \E i \in DOMAIN xs : xs[i].id = id
NoDup(xs) == \A i, j \in DOMAIN xs : i # j => xs[i].id # xs[j].id

\* the lists a response leaves behind, as a caller sees them
GV(r) == Deref(r.heap, r.garages_db)
CV(r) == ViewOfCars(r.heap, r.cars_db)

\* findById issued right after a call
FindGarage(r, id) ==
    LET f == get_garage_by_id(r.heap, r.garages_db, id)
    IN  IF f = None THEN None ELSE Some(r.heap[f[1]])
FindCar(r, id) ==
    LET f == get_car_by_id(r.cars_db, id)
    IN  IF f = None THEN None ELSE Some(CarView(r.heap, f[1]))

\* car payloads whose garage ids are all, some or none stored, in either
\* order, repeated, or unknown before a known one
CheckedIdLists == { <<>>, <<1>>, <<1, 2>>, <<2, 1>>, <<1, 1>>, <<0, 1>>, <<3, 1>> }
CheckedCarDTOs ==
    { [make |-> Toyota, model |-> "Yaris", productionYear |-> 2020,
       licensePlate |-> "P1", garageIds |-> ids] : ids \in CheckedIdLists }

SamePayload(car, dto) ==
    /\ car.make = dto.make
    /\ car.model = dto.model
    /\ car.productionYear = dto.productionYear
    /\ car.licensePlate = dto.licensePlate

\* C1: under sequential use no collection (garages, cars, maintenance) ever
\* holds two entities with the same id.
C1_UniqueIds ==
    /\ NoDup(GaragesView)
    /\ NoDup(cars_db)
    /\ NoDup(maintenance_db)

\* C2: delete(id) of an id that no stored entity carries answers 404 (absence)
\* and leaves the collection unchanged; after a delete(id) that succeeds,
\* findById(id) issued immediately afterwards returns absence.
C2_DeleteThenAbsent ==
    \A id \in IdArgs :
        /\ LET r == delete_garage(heap, garages_db, cars_db, id)
           IN  /\ ~Carries(GaragesView, id) => r.status = 404 /\ GV(r) = GaragesView
               /\ r.status = 200 => FindGarage(r, id) = None
        /\ LET r == delete_car(heap, garages_db, cars_db, id)
           IN  /\ ~Carries(CarsView, id) => r.status = 404 /\ CV(r) = CarsView
               /\ r.status = 200 => FindCar(r, id) = None
        /\ LET r == delete_maintenance_from_db(maintenance_db, id)
           IN  /\ ~Carries(maintenance_db, id) =>
                      r.result = None /\ r.db = maintenance_db
               /\ r.result # None => get_maintenance_by_id(r.db, id) = None

\* C3: if insert(payload) returns entity e, findById(e.id) issued immediately
\* afterwards returns an entity equal to e (same id, same payload fields).
C3_InsertRoundTrip ==
    /\ \A dto \in GarageCreateDTOs :
           LET r == add_garage(heap, garages_db, cars_db, dto)
               e == r.body[1]
           IN  e = GarageDTO(e.id, dto) /\ FindGarage(r, e.id) = Some(e)
    /\ \A dto \in CheckedCarDTOs :
           LET r == add_car(heap, garages_db, cars_db, dto)
               e == r.body[1]
           IN  SamePayload(e, dto) /\ FindCar(r, e.id) = Some(e)
    /\ \A dto \in MaintenanceCreateDTOs :
           LET r == add_maintenance_to_db(maintenance_db, dto)
               e == r.result
           IN  e = MaintenanceDTO(e.id, dto)
               /\ get_maintenance_by_id(r.db, e.id) = Some(e)

\* C4: update(id, payload) of an id that no stored entity carries answers 404
\* and leaves the collection unchanged; of an id that is stored it replaces
\* the entity at its position by one with the same id and the payload's
\* fields, keeps length, order and every other element, and findById(id)
\* immediately afterwards returns the new entity.
C4_UpdateReplaces ==
    /\ \A id \in IdArgs, dto \in GarageCreateDTOs :
           LET r == update_garage(heap, garages_db, cars_db, id, dto)
               e == GarageDTO(id, dto)
           IN  IF ~Carries(GaragesView, id)
               THEN r.status = 404 /\ GV(r) = GaragesView
               ELSE /\ r.status = 200
                    /\ r.body = Some(e)
                    /\ \E p \in DOMAIN GaragesView :
                           /\ GaragesView[p].id = id
                           /\ GV(r) = [GaragesView EXCEPT ![p] = e]
                    /\ FindGarage(r, id) = Some(e)
    /\ \A id \in IdArgs, dto \in CarCreateDTOs :
           LET r == update_car(heap, garages_db, cars_db, id, dto)
           IN  IF ~Carries(CarsView, id)
               THEN r.status = 404 /\ CV(r) = CarsView
               ELSE /\ r.status = 200
                    /\ r.body[1].id = id
                    /\ SamePayload(r.body[1], dto)
                    /\ \E p \in DOMAIN CarsView :
                           /\ CarsView[p].id = id
                           /\ CV(r) = [CarsView EXCEPT ![p] = r.body[1]]
                    /\ FindCar(r, id) = r.body

\* an update has replaced one of two garages
C4_Witness ==
    /\ ret.op = "update_garage"
    /\ ret.status = 200
    /\ Len(garages_db) = 2
    /\ GaragesView[1].id # GaragesView[2].id
    /\ GaragesView[1].name = GaragesView[2].name

\* C6: no garage operation (insert, update, delete) changes the garage list
\* of, removes or alters a stored car; deleting a garage that is stored
\* succeeds whether or not cars refer to it.
C6_GarageSnapshot ==
    /\ \A dto \in GarageCreateDTOs :
           CV(add_garage(heap, garages_db, cars_db, dto)) = CarsView
    /\ \A id \in IdArgs, dto \in GarageCreateDTOs :
           CV(update_garage(heap, garages_db, cars_db, id, dto)) = CarsView
    /\ \A id \in IdArgs :
           LET r == delete_garage(heap, garages_db, cars_db, id)
           IN  /\ CV(r) = CarsView
               /\ Carries(GaragesView, id) => r.status = 200

\* a garage was updated or deleted, and a car still holds it as it was
C6_Witness ==
    /\ ret.op \in {"update_garage", "delete_garage"}
    /\ ret.status = 200
    /\ \E i \in DOMAIN CarsView : \E k \in DOMAIN CarsView[i].garages :
           \A g \in DOMAIN GaragesView : GaragesView[g] # CarsView[i].garages[k]

\* the garages a list of ids stands for: the ids that some stored garage
\* carries, in the order given, each as the first stored garage with the id
FoundGarages(ids) ==
    LET Stands(id) == Carries(GaragesView, id)
        found == SelectSeq(ids, Stands)
        First(id) == CHOOSE g \in DOMAIN GaragesView :
                         /\ GaragesView[g].id = id
                         /\ \A j \in 1..(g - 1) : GaragesView[j].id # id
    IN  [k \in DOMAIN found |-> GaragesView[First(found[k])]]

\* C7: car create, and car update of a stored car, never fail because of
\* garage ids: the car's garage list is exactly the stored garages found for
\* the ids, in the order of the ids, ids that match no garage skipped.
C7_GarageIdsResolved ==
    \A dto \in CheckedCarDTOs :
        /\ LET r == add_car(heap, garages_db, cars_db, dto)
           IN  /\ r.status = 200
               /\ r.body[1].garages = FoundGarages(dto.garageIds)
               /\ CV(r)[Len(CV(r))].garages = FoundGarages(dto.garageIds)
        /\ \A id \in IdArgs :
               Carries(CarsView, id) =>
                   LET r == update_car(heap, garages_db, cars_db, id, dto)
                   IN  /\ r.status = 200
                       /\ r.body[1].garages = FoundGarages(dto.garageIds)
                       /\ \E p \in DOMAIN CV(r) :
                              /\ CV(r)[p].id = id
                              /\ CV(r)[p].garages = FoundGarages(dto.garageIds)

\* a car was created with garage ids 1 and 2 while only garage 1 is stored:
\* its list holds garage 1 alone
C7_Witness ==
    /\ ret.op = "add_car"
    /\ Len(garages_db) = 1
    /\ GaragesView[1].id = 1
    /\ cars_db[Len(cars_db)].make = Toyota
    /\ CarsView[Len(cars_db)].garages = <<GaragesView[1]>>

\* C10: an insert assigns id = length + 1 and appends at the tail; while no
\* delete has been performed on a collection its ids are 1..n in storage
\* order, whatever updates were applied.
C10_DenseIds ==
    /\ \A dto \in GarageCreateDTOs :
           LET r == add_garage(heap, garages_db, cars_db, dto)
           IN  /\ r.body[1].id = Len(garages_db) + 1
               /\ GV(r) = Append(GaragesView, r.body[1])
    /\ \A dto \in CarCreateDTOs :
           LET r == add_car(heap, garages_db, cars_db, dto)
           IN  /\ r.body[1].id = Len(cars_db) + 1
               /\ CV(r) = Append(CarsView, r.body[1])
    /\ \A dto \in MaintenanceCreateDTOs :
           LET r == add_maintenance_to_db(maintenance_db, dto)
           IN  /\ r.result.id = Len(maintenance_db) + 1
               /\ r.db = Append(maintenance_db, r.result)
    /\ "garages" \notin hist.deleted =>
           \A i \in DOMAIN GaragesView : GaragesView[i].id = i
    /\ "cars" \notin hist.deleted =>
           \A i \in DOMAIN cars_db : cars_db[i].id = i
    /\ "maintenance" \notin hist.deleted =>
           \A i \in DOMAIN maintenance_db : maintenance_db[i].id = i

\* two garages stored, the second one updated, nothing deleted so far
C10_Witness ==
    /\ ret.op = "update_garage"
    /\ ret.status = 200
    /\ hist.deleted = {}
    /\ Len(garages_db) = 2
    /\ GaragesView[1].name # GaragesView[2].name

\* C5: listCars filtering is conjunctive: whatever filters are supplied
\* (carMake, garageId, fromYear, toYear, each of any value of its type), the
\* result is exactly the stored cars, in storage order, that satisfy every
\* supplied predicate; a filter that is omitted restricts nothing.
C5_ConjunctiveFilter ==
    ret.op = "get_cars" =>
        LET carMake == ret.args[1]
            garageId == ret.args[2]
            fromYear == ret.args[3]
            toYear == ret.args[4]
            Matches(car) ==
                /\ carMake # None => Lower(car.make) = Lower(carMake[1])
                /\ garageId # None =>
                       \E k \in DOMAIN car.garages : car.garages[k].id = garageId[1]
                /\ fromYear # None => car.productionYear >= fromYear[1]
                /\ toYear # None => car.productionYear <= toYear[1]
        IN  ret.body = SelectSeq(CarsView, Matches)

\* C8: every call of getGarageReport appends exactly one entry (today's date,
\* requests 10, available capacity 50) to the log and nothing is ever
\* removed, so the log is as long as the number of calls made; the call
\* returns exactly the entries dated within [start, end], whatever garageId
\* is; of two successive calls with the same range the second returns at
\* least as many entries as the first.
C8_ReportLog ==
    /\ [](/\ Len(reports_db) = hist.calls
          /\ ret.op = "get_garage_report" =>
                 LET InRange(report) ==
                         report.date >= ret.args[2] /\ report.date <= ret.args[3]
                 IN  /\ ret.body = SelectSeq(reports_db, InRange)
                     /\ (/\ hist.prev.op = "get_garage_report"
                         /\ hist.prev.args[2] = ret.args[2]
                         /\ hist.prev.args[3] = ret.args[3])
                            => Len(ret.body) >= Len(hist.prev.body))
    /\ [][/\ Len(reports_db') >= Len(reports_db)
          /\ SubSeq(reports_db', 1, Len(reports_db)) = reports_db
          /\ hist'.calls = hist.calls + 1 =>
                 reports_db' = Append(reports_db, [date |-> today, requests |-> 10,
                                                   availableCapacity |-> 50])]_vars

\* two successive calls with the same range, the second answer the longer
C8_Witness ==
    /\ ret.op = "get_garage_report"
    /\ hist.prev.op = "get_garage_report"
    /\ hist.prev.args[2] = ret.args[2]
    /\ hist.prev.args[3] = ret.args[3]
    /\ hist.prev.args[1] # ret.args[1]
    /\ hist.calls >= 2
    /\ Len(ret.body) > Len(hist.prev.body)

----------------------------------------------------------------------------
(* C9 speaks of interleavings of request handlers.  Every handler is an    *)
(* `async def` without an await and runs to completion, so the model has   *)
(* none; what follows from that is stated here: two creates in a row are   *)
(* given different ids, and the second not-found check of an update        *)
(* (garageNcar.py:179, 235) is never the one that raises.                  *)
HandlersRunToCompletion ==
    /\ \A d1, d2 \in GarageCreateDTOs :
           LET r1 == add_garage(heap, garages_db, cars_db, d1)
               r2 == add_garage(r1.heap, r1.garages_db, r1.cars_db, d2)
           IN  r1.body[1].id # r2.body[1].id
    /\ \A id \in IdArgs :
           /\ \A dto \in GarageCreateDTOs :
                  update_garage(heap, garages_db, cars_db, id, dto).raisedAt # 179
           /\ \A dto \in CheckedCarDTOs :
                  update_car(heap, garages_db, cars_db, id, dto).raisedAt # 235

====
